---------------------------- MODULE Spec2Model ----------------------------
(***************************************************************************)
(* A model of staku_svg.py: the process-wide Hexagon catalog (name table,  *)
(* position table, sorted list, layout), its lifecycle (module load, init, *)
(* reset, construction, lookup) and the draw_board renderer.               *)
(*                                                                         *)
(* Conventions.                                                            *)
(*  - A Python str is a sequence of one-character strings, so that len(),  *)
(*    sorted(), + and str.replace() are computed, not assumed.             *)
(*  - Python objects with identity (Hexagon instances, list objects) live  *)
(*    in heaps and are referred to by their index; NoneRef is None.        *)
(*  - Lengths are fixed-point numbers in tenths of a pixel; cosines, sines *)
(*    and fractions are in thousandths.                                    *)
(***************************************************************************)
EXTENDS Integers, Sequences, FiniteSets, TLC

VARIABLES
    phase,                   \* "loading" until line 1049 has run, then "loaded"
    heap,                    \* the Hexagon instances, by object id
    lists,                   \* the list objects, by list id
    name_to_hexagon,         \* Hexagon.__name_to_hexagon: name -> object id
    position_uv_to_hexagon,  \* Hexagon.__position_uv_to_hexagon: (u, v) -> object id
    all_sorted_hexagons,     \* Hexagon.__all_sorted_hexagons: a list id
    all,                     \* Hexagon.all: a list id, or NoneRef
    init_done,               \* Hexagon.__init_done
    layout,                  \* Hexagon.__layout
    delta_u,                 \* Hexagon.__delta_u
    delta_v,                 \* Hexagon.__delta_v
    result,                  \* outcome of the last call: what it returned or raised
    rng,                     \* the state of the random module's generator
    pc,                      \* where the running draw_board call is; "idle" when none runs
    call,                    \* the arguments of the running draw_board call
    file_name,               \* draw_board's file_name
    board,                   \* draw_board's board: render size and appended elements
    cell,                    \* position of the loop of line 596 in Hexagon.all, from 1
    label_location,          \* draw_board's label_location
    work,                    \* the texture calls the current cell still has to run
    written,                 \* the files the running draw_board call has written
    runs                     \* history: is this process yet to finish a draw_board
                             \* call, and the SVG documents of earlier processes

catalog_vars == << heap, lists, name_to_hexagon, position_uv_to_hexagon,
                   all_sorted_hexagons, all, init_done, layout, delta_u, delta_v >>

draw_vars == << rng, pc, call, file_name, board, cell, label_location, work, written,
               runs >>

vars == << phase, heap, lists, name_to_hexagon, position_uv_to_hexagon,
           all_sorted_hexagons, all, init_done, layout, delta_u, delta_v, result,
           rng, pc, call, file_name, board, cell, label_location, work, written,
           runs >>

---------------------------------------------------------------------------
(* Bounds of the model. *)

\* reset() allocates a fresh list object each time; at most this many resets.
MaxResets == 1

\* A texture function draws at most this many segments per call: its
\* segment_count (500 to 1500 in draw_board) is capped.
MaxSegments == 1

\* The number of states of the random generator.
RngStates == 16

---------------------------------------------------------------------------
(* Values. *)

NoneRef == 0
NoIndex == -1
NoError == "none"
AssertionError == "AssertionError"
KeyError == "KeyError"

SideNORTH == "Side.NORTH"
SideSOUTH == "Side.SOUTH"
SideWEST == "Side.WEST"
SideEAST == "Side.EAST"
NoneSide == "None"
\* A default of None for the label_side parameter.
DefaultLabelSideNone == "None"
\* The default of the label_side parameter is the int 0, not None (line 372).
DefaultLabelSide == "0"

\* The characters the program's strings are made of, in code-point order.
Alphabet ==
    << "-", ".", "0", "1", "2", "3", "4", "5", "6", "7", "8", "9", "_",
       "a", "b", "c", "d", "e", "f", "g", "h", "i", "j", "k", "l", "m",
       "n", "o", "p", "q", "r", "s", "t", "u", "v", "w", "x", "y", "z" >>

Ord(c) == CHOOSE i \in 1..Len(Alphabet) : Alphabet[i] = c

\* Python's < on str: lexicographic by code point, a proper prefix first.
RECURSIVE StrLess(_, _)
StrLess(a, b) ==
    IF b = << >> THEN FALSE
    ELSE IF a = << >> THEN TRUE
    ELSE IF Head(a) # Head(b) THEN Ord(Head(a)) < Ord(Head(b))
    ELSE StrLess(Tail(a), Tail(b))

\* sorted(keys) on a set of str.
RECURSIVE Sorted(_)
Sorted(S) ==
    IF S = {} THEN << >>
    ELSE LET m == CHOOSE x \in S : \A y \in S \ {x} : StrLess(x, y)
         IN << m >> \o Sorted(S \ {m})

Abs(x) == IF x < 0 THEN -x ELSE x

\* x / d rounded to the nearest integer (d > 0).
Round(x, d) == IF x >= 0 THEN (2 * x + d) \div (2 * d)
               ELSE -((2 * (-x) + d) \div (2 * d))

---------------------------------------------------------------------------
(* BOARD_CONFIG, as make_board_config() computes it, in tenths of a pixel. *)

\* board_width*(hexagon_width_cm/board_width_cm) = 4096*3.6/32.42 = 454.83
hexagon_width == 4548
\* board_width*(hexagon_side_cm/board_width_cm) = 454.83/sqrt(3) = 262.60
hexagon_side == 2626
\* board_width*(hexagon_padding_cm/board_width_cm) = 4096*0.3/32.42 = 37.90
hexagon_padding == 379
hexagon_vertex_count == 6

\* cos and sin of k*30 degrees, in thousandths.
Cos30(k) == << 1000, 866, 500, 0, -500, -866, -1000, -866, -500, 0, 500, 866 >>[(k % 12) + 1]
Sin30(k) == Cos30(k + 9)

origin == << 0, 0 >>
unit_x == << 1000, 0 >>
unit_y == << 0, -1000 >>
unit_u == unit_x
\* cos(hexagon_side_angle)*unit_x + sin(hexagon_side_angle)*unit_y, the angle being 60 degrees
unit_v == << Round(Cos30(2) * unit_x[1] + Sin30(2) * unit_y[1], 1000),
             Round(Cos30(2) * unit_x[2] + Sin30(2) * unit_y[2], 1000) >>

\* -0.60*hexagon_side*unit_y
label_vertical_shift == << Round(Round(-600 * hexagon_side, 1000) * unit_y[1], 1000),
                           Round(Round(-600 * hexagon_side, 1000) * unit_y[2], 1000) >>
\* 1.20*hexagon_side*unit_x
label_horizontal_shift == << Round(Round(1200 * hexagon_side, 1000) * unit_x[1], 1000),
                             Round(Round(1200 * hexagon_side, 1000) * unit_x[2], 1000) >>

VAdd(a, b) == << a[1] + b[1], a[2] + b[2] >>
VSub(a, b) == << a[1] - b[1], a[2] - b[2] >>

\* origin + hexagon_width*(u*unit_u + v*unit_v)
Center(position_uv) ==
    LET u == position_uv[1]
        v == position_uv[2]
    IN  VAdd(origin, << Round(hexagon_width * (u * unit_u[1] + v * unit_v[1]), 1000),
                        Round(hexagon_width * (u * unit_u[2] + v * unit_v[2]), 1000) >>)

---------------------------------------------------------------------------
(* The Hexagon(...) calls of __create_hexagons, in the order it makes them. *)

H(name, position_uv, ring, label_side) ==
    [name |-> name, position_uv |-> position_uv, ring |-> ring, label_side |-> label_side]

\* RowA with a1 given the ring of its neighbour a2.
RowAWrongRing ==
  << H(<<"a","1">>, <<-1, -3>>, 3, SideWEST),
     H(<<"a","2">>, <<0, -3>>, 3, DefaultLabelSide),
     H(<<"a","3">>, <<1, -3>>, 3, DefaultLabelSide),
     H(<<"a","4">>, <<2, -3>>, 3, DefaultLabelSide),
     H(<<"a","5">>, <<3, -3>>, 3, DefaultLabelSide),
     H(<<"a","6">>, <<4, -3>>, 4, SideEAST) >>

\* Row "a" (lines 463-468).
RowA ==
  << H(<<"a","1">>, <<-1, -3>>, 4, SideWEST),
     H(<<"a","2">>, <<0, -3>>, 3, DefaultLabelSide),
     H(<<"a","3">>, <<1, -3>>, 3, DefaultLabelSide),
     H(<<"a","4">>, <<2, -3>>, 3, DefaultLabelSide),
     H(<<"a","5">>, <<3, -3>>, 3, DefaultLabelSide),
     H(<<"a","6">>, <<4, -3>>, 4, SideEAST) >>

\* Row "b" (lines 471-477).
RowB ==
  << H(<<"b","1">>, <<-2, -2>>, 4, SideWEST),
     H(<<"b","2">>, <<-1, -2>>, 3, DefaultLabelSide),
     H(<<"b","3">>, <<0, -2>>, 2, DefaultLabelSide),
     H(<<"b","4">>, <<1, -2>>, 2, DefaultLabelSide),
     H(<<"b","5">>, <<2, -2>>, 2, DefaultLabelSide),
     H(<<"b","6">>, <<3, -2>>, 3, DefaultLabelSide),
     H(<<"b","7">>, <<4, -2>>, 4, SideEAST) >>

\* Row "c" (lines 480-487).
RowC ==
  << H(<<"c","1">>, <<-3, -1>>, 4, SideWEST),
     H(<<"c","2">>, <<-2, -1>>, 3, DefaultLabelSide),
     H(<<"c","3">>, <<-1, -1>>, 2, DefaultLabelSide),
     H(<<"c","4">>, <<0, -1>>, 1, DefaultLabelSide),
     H(<<"c","5">>, <<1, -1>>, 1, DefaultLabelSide),
     H(<<"c","6">>, <<2, -1>>, 2, DefaultLabelSide),
     H(<<"c","7">>, <<3, -1>>, 3, DefaultLabelSide),
     H(<<"c","8">>, <<4, -1>>, 4, SideEAST) >>

\* Row "d" (lines 490-496).
RowD ==
  << H(<<"d","1">>, <<-3, 0>>, 3, SideWEST),
     H(<<"d","2">>, <<-2, 0>>, 2, DefaultLabelSide),
     H(<<"d","3">>, <<-1, 0>>, 1, DefaultLabelSide),
     H(<<"d","4">>, <<0, 0>>, 0, DefaultLabelSide),
     H(<<"d","5">>, <<1, 0>>, 1, DefaultLabelSide),
     H(<<"d","6">>, <<2, 0>>, 2, DefaultLabelSide),
     H(<<"d","7">>, <<3, 0>>, 3, SideEAST) >>

\* Row "e" (lines 499-506).
RowE ==
  << H(<<"e","1">>, <<-4, 1>>, 4, SideWEST),
     H(<<"e","2">>, <<-3, 1>>, 3, DefaultLabelSide),
     H(<<"e","3">>, <<-2, 1>>, 2, DefaultLabelSide),
     H(<<"e","4">>, <<-1, 1>>, 1, DefaultLabelSide),
     H(<<"e","5">>, <<0, 1>>, 1, DefaultLabelSide),
     H(<<"e","6">>, <<1, 1>>, 2, DefaultLabelSide),
     H(<<"e","7">>, <<2, 1>>, 3, DefaultLabelSide),
     H(<<"e","8">>, <<3, 1>>, 4, SideEAST) >>

\* Row "f" (lines 509-515).
RowF ==
  << H(<<"f","1">>, <<-4, 2>>, 4, SideWEST),
     H(<<"f","2">>, <<-3, 2>>, 3, DefaultLabelSide),
     H(<<"f","3">>, <<-2, 2>>, 2, DefaultLabelSide),
     H(<<"f","4">>, <<-1, 2>>, 2, DefaultLabelSide),
     H(<<"f","5">>, <<0, 2>>, 2, DefaultLabelSide),
     H(<<"f","6">>, <<1, 2>>, 3, DefaultLabelSide),
     H(<<"f","7">>, <<2, 2>>, 4, SideEAST) >>

\* RowG without its last cell.
RowGShort ==
  << H(<<"g","1">>, <<-4, 3>>, 4, SideWEST),
     H(<<"g","2">>, <<-3, 3>>, 3, DefaultLabelSide),
     H(<<"g","3">>, <<-2, 3>>, 3, DefaultLabelSide),
     H(<<"g","4">>, <<-1, 3>>, 3, DefaultLabelSide),
     H(<<"g","5">>, <<0, 3>>, 3, DefaultLabelSide) >>

\* Row "g" (lines 518-523).
RowG ==
  << H(<<"g","1">>, <<-4, 3>>, 4, SideWEST),
     H(<<"g","2">>, <<-3, 3>>, 3, DefaultLabelSide),
     H(<<"g","3">>, <<-2, 3>>, 3, DefaultLabelSide),
     H(<<"g","4">>, <<-1, 3>>, 3, DefaultLabelSide),
     H(<<"g","5">>, <<0, 3>>, 3, DefaultLabelSide),
     H(<<"g","6">>, <<1, 3>>, 4, SideEAST) >>

\* __create_hexagons: rows "a" to "g".
HexagonCalls == RowA \o RowB \o RowC \o RowD \o RowE \o RowF \o RowG

\* __create_layout: (shift, names) per drawn row, top row first.
Names(prefix, n) == [i \in 1..n |-> << prefix, Alphabet[3 + i] >>]

CreateLayout ==
    << << 1, Names("g", 6) >>,
       << 0, Names("f", 7) >>,
       << 1, Names("e", 8) >>,
       << 0, Names("d", 7) >>,
       << 1, Names("c", 8) >>,
       << 0, Names("b", 7) >>,
       << 1, Names("a", 6) >> >>

\* __create_delta_u_and_v
CreateDeltaU == << 1, 1, 0, -1, -1, 0 >>
CreateDeltaV == << 0, -1, -1, 0, 1, 1 >>

---------------------------------------------------------------------------
(* Hexagon.__init__ *)

\* The assertions without the one on the name's freshness (line 374).
AssertsWithoutNameCheck(st, name, position_uv) ==
    /\ Len(position_uv) = 2
    /\ position_uv \notin DOMAIN st.p2h
    /\ Len(name) = 2

\* The assertions without the one on the position's length (line 375).
AssertsWithoutPairCheck(st, name, position_uv) ==
    /\ name \notin DOMAIN st.n2h
    /\ position_uv \notin DOMAIN st.p2h
    /\ Len(name) = 2

\* The constructor's four assertions pass (lines 374-377).
AssertsHold(st, name, position_uv) ==
    /\ name \notin DOMAIN st.n2h
    /\ Len(position_uv) = 2
    /\ position_uv \notin DOMAIN st.p2h
    /\ Len(name) = 2

\* Hexagon.__name_to_hexagon[self.name] = self
RegisterName(n2h, name, oid) ==
    [k \in DOMAIN n2h \cup {name} |-> IF k = name THEN oid ELSE n2h[k]]

\* The position table left as it is.
RegisterPositionSkipped(p2h, position_uv, oid) == p2h

\* Hexagon.__position_uv_to_hexagon[position_uv] = self
RegisterPosition(p2h, position_uv, oid) ==
    [k \in DOMAIN p2h \cup {position_uv} |-> IF k = position_uv THEN oid ELSE p2h[k]]

\* One constructor call on st = [heap, n2h, p2h, ok]; ok becomes FALSE when an
\* assertion fails, and then nothing has been assigned or registered.
HexagonInit(st, name, position_uv, ring, label_side) ==
    IF ~AssertsHold(st, name, position_uv)
    THEN [st EXCEPT !.ok = FALSE]
    ELSE LET oid == Len(st.heap) + 1
             self == [name |-> name,
                      position_uv |-> position_uv,
                      ring |-> ring,
                      label_side |-> label_side,
                      index |-> NoIndex,
                      center |-> Center(position_uv)]
         IN  [heap |-> Append(st.heap, self),
              n2h |-> RegisterName(st.n2h, name, oid),
              p2h |-> RegisterPosition(st.p2h, position_uv, oid),
              ok |-> TRUE]

\* __create_hexagons from its i-th call on: the first failing assertion
\* propagates, and the calls after it are not made.
RECURSIVE CreateHexagonsFrom(_, _)
CreateHexagonsFrom(st, i) ==
    IF i > Len(HexagonCalls) THEN st
    ELSE LET c == HexagonCalls[i]
             next == HexagonInit(st, c.name, c.position_uv, c.ring, c.label_side)
         IN  IF next.ok THEN CreateHexagonsFrom(next, i + 1) ELSE next

CreateHexagons(st) == CreateHexagonsFrom(st, 1)

\* The appends made in descending order of name.
AppendDescending(list, n2h) ==
    LET keys == Sorted(DOMAIN n2h)
    IN  list \o [i \in 1..Len(keys) |-> n2h[keys[Len(keys) + 1 - i]]]

\* __create_all_sorted_hexagons, first loop: the list after the appends.
AppendSorted(list, n2h) ==
    LET keys == Sorted(DOMAIN n2h)
    IN  list \o [i \in 1..Len(keys) |-> n2h[keys[i]]]

\* __create_all_sorted_hexagons, second loop: hexagon.index = index, from 0.
IndexFromOne(h, list) ==
    [o \in 1..Len(h) |->
        IF \E i \in 1..Len(list) : list[i] = o
        THEN [h[o] EXCEPT !.index = CHOOSE i \in 1..Len(list) : list[i] = o]
        ELSE h[o]]

AssignIndex(h, list) ==
    [o \in 1..Len(h) |->
        IF \E i \in 1..Len(list) : list[i] = o
        THEN [h[o] EXCEPT !.index = (CHOOSE i \in 1..Len(list) :
                                        /\ list[i] = o
                                        /\ \A j \in (i + 1)..Len(list) : list[j] # o) - 1]
        ELSE h[o]]

---------------------------------------------------------------------------
(* The state at line 1049, before Hexagon.init() runs: the class body has *)
(* been executed, the tables are empty and Hexagon.all is None.           *)

\* What a call did: its arguments, the exception it raised (or NoError) and the
\* object it returned (or NoneRef).
Outcome(op, args, error, value) ==
    [op |-> op, args |-> args, error |-> error, value |-> value]

CatalogInit ==
    /\ phase = "loading"
    /\ heap = << >>
    /\ lists = << << >> >>
    /\ name_to_hexagon = << >>
    /\ position_uv_to_hexagon = << >>
    /\ all_sorted_hexagons = 1
    /\ all = NoneRef
    /\ init_done = FALSE
    /\ layout = << >>
    /\ delta_u = << >>
    /\ delta_v = << >>
    /\ result = Outcome("load", << >>, NoError, NoneRef)

\* The guard of init() ignored.
AlwaysCreate == TRUE

\* if not Hexagon.__init_done
MustCreate == ~init_done

\* The body of Hexagon.init().
InitBody ==
    IF ~MustCreate
    THEN /\ UNCHANGED catalog_vars
         /\ result' = Outcome("init", << >>, NoError, NoneRef)
    ELSE LET st == CreateHexagons([heap |-> heap, n2h |-> name_to_hexagon,
                                   p2h |-> position_uv_to_hexagon, ok |-> TRUE])
         IN  IF ~st.ok
             THEN \* AssertionError out of __create_hexagons: the cells made
                  \* before it stay registered, nothing else has run.
                  /\ heap' = st.heap
                  /\ name_to_hexagon' = st.n2h
                  /\ position_uv_to_hexagon' = st.p2h
                  /\ UNCHANGED << lists, all_sorted_hexagons, all, init_done,
                                  layout, delta_u, delta_v >>
                  /\ result' = Outcome("init", << >>, AssertionError, NoneRef)
             ELSE LET list == AppendSorted(lists[all_sorted_hexagons], st.n2h)
                  IN  /\ heap' = AssignIndex(st.heap, list)
                      /\ name_to_hexagon' = st.n2h
                      /\ position_uv_to_hexagon' = st.p2h
                      /\ lists' = [lists EXCEPT ![all_sorted_hexagons] = list]
                      /\ UNCHANGED all_sorted_hexagons
                      /\ all' = all_sorted_hexagons
                      /\ layout' = CreateLayout
                      /\ delta_u' = CreateDeltaU
                      /\ delta_v' = CreateDeltaV
                      /\ init_done' = TRUE
                      /\ result' = Outcome("init", << >>, NoError, NoneRef)

\* Line 1049: the module calls Hexagon.init() as it is loaded.
ModuleLoad ==
    /\ phase = "loading"
    /\ phase' = "loaded"
    /\ InitBody
    /\ UNCHANGED draw_vars

\* Hexagon.init()
HexInit ==
    /\ phase = "loaded"
    /\ pc = "idle"
    /\ UNCHANGED << phase, draw_vars >>
    /\ InitBody

\* The name table left as it is.
ResetKeepsNames(n2h) == n2h

\* Hexagon.__name_to_hexagon = {}
ResetNames(n2h) == << >>

\* Hexagon.reset(): fresh empty list and tables; Hexagon.all is not assigned.
HexReset ==
    /\ phase = "loaded"
    /\ pc = "idle"
    /\ Len(lists) <= MaxResets
    /\ lists' = Append(lists, << >>)
    /\ all_sorted_hexagons' = Len(lists) + 1
    /\ init_done' = FALSE
    /\ layout' = << >>
    /\ name_to_hexagon' = ResetNames(name_to_hexagon)
    /\ position_uv_to_hexagon' = << >>
    /\ UNCHANGED << phase, heap, all, delta_u, delta_v, draw_vars >>
    /\ result' = Outcome("reset", << >>, NoError, NoneRef)

\* Hexagon(name, position_uv, ring, label_side), called from outside the class.
Construct(name, position_uv, ring, label_side) ==
    /\ phase = "loaded"
    /\ pc = "idle"
    /\ LET st == HexagonInit([heap |-> heap, n2h |-> name_to_hexagon,
                              p2h |-> position_uv_to_hexagon, ok |-> TRUE],
                             name, position_uv, ring, label_side)
       IN  /\ heap' = st.heap
           /\ name_to_hexagon' = st.n2h
           /\ position_uv_to_hexagon' = st.p2h
           /\ result' = IF st.ok
                        THEN Outcome("construct", << name, position_uv, ring, label_side >>,
                                     NoError, Len(st.heap))
                        ELSE Outcome("construct", << name, position_uv, ring, label_side >>,
                                     AssertionError, NoneRef)
    /\ UNCHANGED << phase, lists, all_sorted_hexagons, all, init_done, layout,
                    delta_u, delta_v, draw_vars >>

\* Hexagon.get(name)
Get(name) ==
    /\ phase = "loaded"
    /\ pc = "idle"
    /\ result' = IF name \in DOMAIN name_to_hexagon
                 THEN Outcome("get", << name >>, NoError, name_to_hexagon[name])
                 ELSE Outcome("get", << name >>, KeyError, NoneRef)
    /\ UNCHANGED << phase, catalog_vars, draw_vars >>

\* Hexagon.get_all()
GetAll ==
    /\ phase = "loaded"
    /\ pc = "idle"
    /\ result' = Outcome("get_all", << >>, NoError, all_sorted_hexagons)
    /\ UNCHANGED << phase, catalog_vars, draw_vars >>

---------------------------------------------------------------------------
(* draw_board: the name of the output files (lines 535-566). *)

\* 'staku_board_without_labels' (line 536)
Str_without_labels ==
    << "s", "t", "a", "k", "u", "_", "b", "o", "a", "r", "d", "_", "w",
       "i", "t", "h", "o", "u", "t", "_", "l", "a", "b", "e", "l", "s" >>

\* 'staku_board_with_all_labels' (line 539)
Str_with_all_labels ==
    << "s", "t", "a", "k", "u", "_", "b", "o", "a", "r", "d", "_", "w",
       "i", "t", "h", "_", "a", "l", "l", "_", "l", "a", "b", "e", "l",
       "s" >>

\* 'staku_board_with_few_labels' (line 542)
Str_with_few_labels ==
    << "s", "t", "a", "k", "u", "_", "b", "o", "a", "r", "d", "_", "w",
       "i", "t", "h", "_", "f", "e", "w", "_", "l", "a", "b", "e", "l",
       "s" >>

\* '_with_decoration' (line 545)
Str_with_decoration ==
    << "_", "w", "i", "t", "h", "_", "d", "e", "c", "o", "r", "a", "t",
       "i", "o", "n" >>

\* '_without_gradient' (line 548)
Str_without_gradient ==
    << "_", "w", "i", "t", "h", "o", "u", "t", "_", "g", "r", "a", "d",
       "i", "e", "n", "t" >>

\* '_without_opacity' (line 551)
Str_without_opacity ==
    << "_", "w", "i", "t", "h", "o", "u", "t", "_", "o", "p", "a", "c",
       "i", "t", "y" >>

\* '_with_texture' (line 554)
Str_with_texture ==
    << "_", "w", "i", "t", "h", "_", "t", "e", "x", "t", "u", "r", "e" >>

\* '_with_concentrated_texture' (line 557)
Str_with_concentrated_texture ==
    << "_", "w", "i", "t", "h", "_", "c", "o", "n", "c", "e", "n", "t",
       "r", "a", "t", "e", "d", "_", "t", "e", "x", "t", "u", "r", "e" >>

\* '_with_concentric_hexas' (line 560)
Str_with_concentric_hexas ==
    << "_", "w", "i", "t", "h", "_", "c", "o", "n", "c", "e", "n", "t",
       "r", "i", "c", "_", "h", "e", "x", "a", "s" >>

\* 'staku_' (line 563)
Str_staku ==
    << "s", "t", "a", "k", "u", "_" >>

\* 'staku_laser_' (line 563)
Str_staku_laser ==
    << "s", "t", "a", "k", "u", "_", "l", "a", "s", "e", "r", "_" >>

\* 'scale-' (line 566)
Str_scale ==
    << "s", "c", "a", "l", "e", "-" >>

\* '.svg' (line 795)
Str_svg ==
    << ".", "s", "v", "g" >>

\* '.png' (line 800)
Str_png ==
    << ".", "p", "n", "g" >>

\* str.find(old, i): the first index at or after i where old occurs in s,
\* 0 when there is none.
Find(s, i, old) ==
    LET matches == { j \in i .. (Len(s) - Len(old) + 1) :
                        SubSeq(s, j, j + Len(old) - 1) = old }
    IN  IF matches = {} THEN 0
        ELSE CHOOSE j \in matches : \A k \in matches : j <= k

\* s[i..] with every occurrence of old replaced by new, left to right.
RECURSIVE ReplaceFrom(_, _, _, _)
ReplaceFrom(s, i, old, new) ==
    LET j == Find(s, i, old)
    IN  IF j = 0 THEN SubSeq(s, i, Len(s))
        ELSE SubSeq(s, i, j - 1) \o new \o ReplaceFrom(s, j + Len(old), old, new)

\* str.replace(old, new), old not empty.
Replace(s, old, new) == ReplaceFrom(s, 1, old, new)

\* str(n) for an int n >= 0.
RECURSIVE Digits(_)
Digits(n) ==
    IF n < 10 THEN << Alphabet[3 + n] >>
    ELSE Digits(n \div 10) \o << Alphabet[3 + (n % 10)] >>

\* f"{x:.1f}": rounded to one decimal.
Format1f(x) ==
    LET t == (x + 50) \div 100
    IN  Digits(t \div 10) \o << "." >> \o Digits(t % 10)

\* f"{x:.2f}" for x >= 0 given in thousandths: rounded to two decimals.
Format2f(x) ==
    LET h == Round(x, 10)
    IN  Digits(h \div 100) \o << "." >> \o Digits((h % 100) \div 10) \o Digits(h % 10)

\* Lines 535-542.
LabelToken(a) ==
    IF a.without_labels THEN Str_without_labels
    ELSE IF a.with_all_labels THEN Str_with_all_labels
    ELSE Str_with_few_labels

\* Lines 544-545.
DecorationToken(a) == IF a.with_decoration THEN Str_with_decoration ELSE << >>

\* Lines 547-548.
GradientToken(a) == IF ~a.with_gradient THEN Str_without_gradient ELSE << >>

\* Lines 550-551.
OpacityToken(a) == IF ~a.with_opacity THEN Str_without_opacity ELSE << >>

\* No token for with_texture.
TextureTokenDropped(a) == << >>

\* Lines 553-554.
TextureToken(a) == IF a.with_texture THEN Str_with_texture ELSE << >>

\* Lines 556-557.
ConcentratedToken(a) ==
    IF a.with_concentrated_texture THEN Str_with_concentrated_texture ELSE << >>

\* Lines 559-560.
ConcentricToken(a) ==
    IF a.with_concentric_hexas THEN Str_with_concentric_hexas ELSE << >>

\* file_name as line 566 leaves it; scale_factor is in thousandths.
FileName(a) ==
    LET tokens == LabelToken(a) \o DecorationToken(a) \o GradientToken(a)
                    \o OpacityToken(a) \o TextureToken(a) \o ConcentratedToken(a)
                    \o ConcentricToken(a)
        rendered == IF ~a.do_rendering
                    THEN Replace(tokens, Str_staku, Str_staku_laser)
                    ELSE tokens
    IN  IF a.scale_factor # 1000
        THEN Str_scale \o Format2f(a.scale_factor) \o << "-" >> \o rendered
        ELSE rendered

---------------------------------------------------------------------------
(* The random module, seeded once as the module is loaded (lines 43-44).  *)
(* The generator is deterministic: a state, a step per library call and a *)
(* value in [0, 1) (in thousandths) per step.                             *)

RANDOM_SEED == 20240822

\* random.seed(a=RANDOM_SEED)
Seeded == RANDOM_SEED % RngStates

\* The generator's state after one more library call.
RandomStep(s) == (5 * s + 3) % RngStates

\* The generator's state after k more library calls.
RECURSIVE RandomState(_, _)
RandomState(s, k) == IF k = 0 THEN s ELSE RandomState(RandomStep(s), k - 1)

\* What the k-th library call from state s yields, as random.random() would.
RandomValue(s, k) == (61 * RandomState(s, k) + 7) % 1000

\* random.uniform(a, b), with a and b in thousandths.
Uniform(a, b, r) == a + Round((b - a) * r, 1000)

\* random.sample(range(6), 2): two distinct indices, in the order drawn.
SamplePair(r) ==
    LET i == (r % 30) \div 5
        j == (r % 30) % 5
    IN  << i, IF j >= i THEN j + 1 ELSE j >>

---------------------------------------------------------------------------
(* TinyVector and the geometry of a cell. *)

\* k*v for a factor or a vector given in thousandths.
VScale(k, v) == << Round(k * v[1], 1000), Round(k * v[2], 1000) >>

\* (1 - p)*a + p*b, p in thousandths.
Lerp(p, a, b) == << Round((1000 - p) * a[1] + p * b[1], 1000),
                    Round((1000 - p) * a[2] + p * b[2], 1000) >>

RECURSIVE SqrtBetween(_, _, _)
SqrtBetween(n, lo, hi) ==
    IF lo >= hi THEN lo
    ELSE LET mid == (lo + hi + 1) \div 2
         IN  IF mid * mid <= n THEN SqrtBetween(n, mid, hi)
             ELSE SqrtBetween(n, lo, mid - 1)

\* TinyVector.norm
Norm(v) == LET n == v[1] * v[1] + v[2] * v[2]
           IN  SqrtBetween(n, 0, IF n < 46340 THEN n ELSE 46340)

\* min(1, max(0, x)), in thousandths
Clamp(x) == IF x < 0 THEN 0 ELSE IF x > 1000 THEN 1000 ELSE x

\* hexagon_scale*BOARD_CONFIG.hexagon_side, hexagon_scale being
\* 1 - hexagon_padding/hexagon_width (lines 601, 612)
EffectiveSide == Round((hexagon_width - hexagon_padding) * hexagon_side, hexagon_width)

\* Lines 603-618: the vertex at angle (1/2 + vertex_index) * 60 degrees.
HexagonVertex(center, vertex_index) ==
    LET k == 2 * vertex_index + 1
    IN  VAdd(VAdd(center, VScale(Round(EffectiveSide * Cos30(k), 1000), unit_x)),
             VScale(Round(EffectiveSide * Sin30(k), 1000), unit_y))

HexagonVertices(center) ==
    [i \in 1..hexagon_vertex_count |-> HexagonVertex(center, i - 1)]

\* A masking circle that reaches beyond the vertices of the cell.
decorater_circle_beyond == Round(1250 * hexagon_side, 1000)

\* decorater_circle_scale*BOARD_CONFIG.hexagon_side (lines 740-741)
decorater_circle_radius == Round(750 * hexagon_side, 1000)

\* masking_radius=None
NoRadius == -1

---------------------------------------------------------------------------
(* One pass through the body of a texture loop: the segment sampled from  *)
(* generator state s, and the generator's state after it. error is a      *)
(* division by a zero border_side.                                        *)

Sampled(error, edges, s) == [error |-> error, edges |-> edges, rng |-> s]

\* draw_concentrated_texture, lines 867-891.
ConcentratedSample(center, V, s) ==
    LET hexagon_side_here == Norm(VSub(V[1], center))
        vertex_index == RandomValue(s, 1) % 6
        b0 == Lerp(RandomValue(s, 2), V[vertex_index + 1], V[((vertex_index + 1) % 6) + 1])
        opposite == (vertex_index + 3) % 6
        b1 == Lerp(RandomValue(s, 3), V[opposite + 1], V[((opposite + 1) % 6) + 1])
        border_side == Norm(VSub(b1, b0))
        t == RandomValue(s, 4)
        w == Uniform(10, 60, RandomValue(s, 5))
    IN  IF border_side = 0 THEN Sampled(TRUE, << >>, RandomState(s, 5))
        ELSE LET u == Round(w * hexagon_side_here, border_side)
                 a == Clamp(t - Round(u, 2))
                 b == Clamp(t + Round(u, 2))
             IN  Sampled(FALSE, << Lerp(a, b0, b1), Lerp(b, b0, b1) >>, RandomState(s, 5))

\* draw_uniform_texture, lines 931-934: for each of the two border points,
\* the indices of the two vertices sampled and p.
UniformChoices(s) ==
    << [vertices |-> SamplePair(RandomValue(s, 1)), p |-> RandomValue(s, 2)],
       [vertices |-> SamplePair(RandomValue(s, 3)), p |-> RandomValue(s, 4)] >>

\* draw_uniform_texture, lines 930-945.
UniformSample(center, V, s) ==
    LET hexagon_side_here == Norm(VSub(V[1], center))
        v0 == UniformChoices(s)[1].vertices
        b0 == Lerp(UniformChoices(s)[1].p, V[v0[1] + 1], V[v0[2] + 1])
        v1 == UniformChoices(s)[2].vertices
        b1 == Lerp(UniformChoices(s)[2].p, V[v1[1] + 1], V[v1[2] + 1])
        border_side == Norm(VSub(b1, b0))
        t == RandomValue(s, 5)
        w == Uniform(10, 80, RandomValue(s, 6))
    IN  IF border_side = 0 THEN Sampled(TRUE, << >>, RandomState(s, 6))
        ELSE LET u == Round(w * hexagon_side_here, border_side)
                 a == Clamp(t - Round(u, 2))
                 b == Clamp(t + Round(u, 2))
             IN  Sampled(FALSE, << Lerp(a, b0, b1), Lerp(b, b0, b1) >>, RandomState(s, 6))

\* draw_gradient_texture, lines 981-1026.
GradientSample(center, V, s) ==
    LET vertex_index_1 == RandomValue(s, 1) % 6
        vertex_index_2 == (vertex_index_1 + 1) % 6
        p == RandomValue(s, 2)
        b0 == Lerp(1000 - p, V[vertex_index_1 + 1], V[vertex_index_2 + 1])
        b1 == center
        t == RandomValue(s, 3)
        width == Uniform(20, 20, RandomValue(s, 4))
        a == Clamp(t - Round(width, 2))
        b == Clamp(t + Round(width, 2))
    IN  Sampled(FALSE, << VAdd(b0, VScale(a, VSub(b1, b0))),
                          VAdd(b0, VScale(b, VSub(b1, b0))) >>, RandomState(s, 4))

Sample(style, center, V, s) ==
    IF style = "concentrated" THEN ConcentratedSample(center, V, s)
    ELSE IF style = "uniform" THEN UniformSample(center, V, s)
    ELSE GradientSample(center, V, s)

\* Lines 897-902 and 951-956: some end of the segment is inside the radius.
Rejected(edges, center, masking_radius) ==
    \E i \in 1..Len(edges) : Norm(VSub(edges[i], center)) < masking_radius

\* One pass through the body of a texture loop, for every texture style, cell
\* center, masking radius of draw_board and generator state: the segment
\* sampled, and whether lines 893-905 or 947-959 send the loop round again.
Tries ==
    [style \in { "concentrated", "uniform", "gradient" },
     center \in { Center(HexagonCalls[k].position_uv) : k \in 1..Len(HexagonCalls) },
     masking_radius \in { NoRadius, decorater_circle_radius },
     s \in 0..(RngStates - 1) |->
        LET sample == Sample(style, center, HexagonVertices(center), s)
        IN  [sample |-> sample,
             again |-> /\ ~sample.error
                       /\ masking_radius # NoRadius
                       /\ Rejected(sample.edges, center, masking_radius)]] @@ << >>

---------------------------------------------------------------------------
(* draw_board: the drawing. *)

\* An element appended to the board: the drawsvg primitive, what it is drawn
\* for, the cell it belongs to (its name) and its numbers (coordinates, or
\* the parameters its coordinates are computed from).
Element(kind, role, name, data) ==
    [kind |-> kind, role |-> role, cell |-> name, data |-> data]

NoCall == [scale_factor |-> 0]
NoLocation == [bound |-> TRUE, none |-> TRUE, at |-> << 0, 0 >>]
Unbound == [bound |-> FALSE, none |-> TRUE, at |-> << 0, 0 >>]
Location(at) == [bound |-> TRUE, none |-> FALSE, at |-> at]
NoBoard == [render_size |-> << >>, elements |-> << >>]

\* board_width in tenths of a pixel (line 256), board_height and
\* board_cut_margin (lines 257-259), the board's sizes in hundredths of a cm.
board_width == 40960
board_height == 34163
board_cut_margin == 13
board_width_cm == 3242
board_height_cm == 2704

\* BOARD_CONFIG.hexagon_opacity, in thousandths
hexagon_opacity == 450

\* Lines 569-592: the Drawing, its render size and the outer rectangle.
NewBoard(a) ==
    [render_size |-> << Round(a.scale_factor * board_width_cm, 1000),
                        Round(a.scale_factor * board_height_cm, 1000) >>,
     elements |->
        << IF a.do_rendering
           THEN Element("Rectangle", "outer", << >>,
                        << -(board_width \div 2), -(board_height \div 2),
                           board_width, board_height >>)
           ELSE Element("Rectangle", "cut", << >>,
                        << -(board_width \div 2) + board_cut_margin,
                           -(board_height \div 2) + board_cut_margin,
                           board_width - 2 * board_cut_margin,
                           board_height - 2 * board_cut_margin >>) >>]

\* The cell the loop of line 596 is at.
CurrentCell == heap[lists[all][cell]]

Flat(V) == [i \in 1..(2 * Len(V)) |-> V[(i + 1) \div 2][2 - (i % 2)]]

\* Lines 623-650: the polygon of the cell, its fill and the opacity of the fill.
HexagonElement(a, c) ==
    LET opacity == IF c.ring % 2 = 0 THEN hexagon_opacity ELSE hexagon_opacity \div 2
    IN  [kind |-> "Lines", role |-> "hexagon", cell |-> c.name,
         data |-> Flat(HexagonVertices(c.center)),
         fill |-> IF a.with_gradient THEN "gradient"
                  ELSE IF c.ring % 2 = 1 THEN "none" ELSE "black",
         opacity |-> IF a.with_gradient THEN opacity
                     ELSE IF a.with_opacity THEN opacity \div 2 ELSE 0]

\* draw_concentric_hexas: hexa_count + 1 outlines, the scale of each between
\* hexa_scale_max and hexa_scale_min (thousandths).
ConcentricHexas(c, hexa_count, hexa_scale_min, hexa_scale_max) ==
    [i \in 1..(hexa_count + 1) |->
        LET fs == (i - 1) * (i - 1)
            n == hexa_count * hexa_count
        IN  Element("Lines", "hexa", c.name,
                    << i - 1, Round(fs * hexa_scale_min + (n - fs) * hexa_scale_max, n) >>)]

\* A call of a texture function still to run: its segment_count and its
\* masking_radius. The count is capped by MaxSegments.
Texture(style, segment_count, masking_radius) ==
    [style |-> style,
     left |-> IF segment_count < MaxSegments THEN segment_count ELSE MaxSegments,
     masking_radius |-> masking_radius]

\* The default texture whatever the flags.
OddTextureAlwaysUniform(a) == << Texture("uniform", 500, NoRadius) >>

\* Lines 652-664: the one texture of a cell of odd ring.
OddTextures(a) ==
    IF a.with_concentric_hexas THEN << >>
    ELSE IF a.with_concentrated_texture THEN << Texture("concentrated", 600, NoRadius) >>
    ELSE IF a.with_texture THEN << Texture("gradient", 800, NoRadius) >>
    ELSE << Texture("uniform", 500, NoRadius) >>

OddElements(a, c) ==
    IF a.with_concentric_hexas THEN ConcentricHexas(c, 12, 250, 1000) ELSE << >>

\* Line 669: the cells whose decorative polygon has 14 sides.
SpecialNames ==
    { << "g", "1" >>, << "g", "6" >>, << "a", "1" >>, << "a", "6" >>,
      << "e", "1" >>, << "e", "3" >>, << "e", "6" >>, << "e", "8" >>,
      << "c", "1" >>, << "c", "3" >>, << "c", "6" >>, << "c", "8" >>,
      << "d", "4" >> }

\* Lines 669-745: the decorative polygon of a cell of even ring, one rotated
\* hexagon per side of it, and the outlines of draw_concentric_hexas.
EvenElements(a, c) ==
    LET side_count == IF c.name \in SpecialNames THEN 14 ELSE 12
    IN  << Element("Lines", "decorater_polygon_1", c.name, << side_count >>) >>
        \o [i \in 1..side_count |-> Element("Lines", "rotating_polygon", c.name, << i - 1 >>)]
        \o (IF a.with_concentric_hexas THEN ConcentricHexas(c, 1, 930, 1000) ELSE << >>)

\* Lines 747-764: the textures of a cell of even ring.
EvenTextures(a) ==
    (IF a.with_concentrated_texture
     THEN << Texture("concentrated", 500, decorater_circle_radius) >> ELSE << >>)
    \o (IF a.with_texture
        THEN << Texture("uniform", 1500, decorater_circle_radius),
                Texture("gradient", 500, NoRadius) >>
        ELSE << >>)

\* The label location of the few-labels mode whatever the label flags.
LabelLocationFromTagOnly(a, c, previous) ==
    IF c.label_side = SideWEST THEN Location(VSub(c.center, label_horizontal_shift))
    ELSE IF c.label_side = SideEAST THEN Location(VAdd(c.center, label_horizontal_shift))
    ELSE NoLocation

\* Lines 767-782: label_location after the cell's pass; it is assigned in no
\* branch when label_side is None, and then keeps what it was.
LabelLocation(a, c, previous) ==
    IF a.without_labels THEN NoLocation
    ELSE IF a.with_all_labels THEN Location(VAdd(c.center, label_vertical_shift))
    ELSE IF c.label_side # NoneSide
         THEN IF c.label_side = SideWEST
              THEN Location(VSub(c.center, label_horizontal_shift))
              ELSE IF c.label_side = SideEAST
                   THEN Location(VAdd(c.center, label_horizontal_shift))
                   ELSE NoLocation
         ELSE previous

\* draw_board raises: the exception leaves the function at once.
Raise(error) ==
    /\ pc' = "raised"
    /\ result' = Outcome("draw_board", << >>, error, NoneRef)

\* Lines 767-791, then the loop's next pass: the label of the current cell on
\* the elements b drawn so far.
EndOfCell(b) ==
    LET c == CurrentCell
        location == LabelLocation(call, c, label_location)
    IN  IF ~location.bound
        THEN /\ Raise("UnboundLocalError")
             /\ board' = [board EXCEPT !.elements = b]
             /\ UNCHANGED << cell, label_location, work >>
        ELSE /\ label_location' = location
             /\ board' = [board EXCEPT !.elements =
                            IF location.none THEN b
                            ELSE Append(b, Element("Text", "label", c.name, location.at))]
             /\ cell' = cell + 1
             /\ work' = << >>
             /\ pc' = IF cell + 1 > Len(lists[all]) THEN "save_svg" ELSE "hexagon"
             /\ UNCHANGED result

\* draw_board(...) is called: lines 526-596.
\* The generator seeded anew by every call.
ReseededAtCall(s) == Seeded

\* The generator as draw_board finds it: no line of the function, nor of the
\* texture functions, seeds it or sets its state; left as the call before
\* left it.
GeneratorAtCall(s) == s

DrawBegin(a) ==
    /\ phase = "loaded"
    /\ pc = "idle"
    /\ rng' = GeneratorAtCall(rng)
    /\ call' = a
    /\ file_name' = FileName(a)
    /\ board' = NewBoard(a)
    /\ cell' = 1
    /\ label_location' = Unbound
    /\ work' = << >>
    /\ written' = << >>
    /\ pc' = IF Len(lists[all]) = 0 THEN "save_svg" ELSE "hexagon"
    /\ UNCHANGED << catalog_vars, phase, result, runs >>

\* The arguments of the call main() makes (line 1044), the others by default.
MainArgs ==
    [scale_factor |-> 5000, with_all_labels |-> FALSE, without_labels |-> FALSE,
     with_decoration |-> TRUE, do_rendering |-> TRUE, with_gradient |-> TRUE,
     with_opacity |-> TRUE, with_texture |-> FALSE,
     with_concentrated_texture |-> FALSE, with_concentric_hexas |-> FALSE]

\* main(): lines 1042-1044.
Main == DrawBegin(MainArgs)

\* One pass of the loop of line 596 up to its first random texture: the
\* polygon, the decoration that needs no sampling, and the textures to run.
DrawHexagon ==
    /\ pc = "hexagon"
    /\ LET c == CurrentCell
           odd == c.ring % 2 = 1
           drawn == Append(board.elements, HexagonElement(call, c))
                      \o (IF ~call.with_decoration THEN << >>
                          ELSE IF odd THEN OddElements(call, c)
                          ELSE EvenElements(call, c))
           textures == IF ~call.with_decoration THEN << >>
                       ELSE IF odd THEN OddTextures(call)
                       ELSE EvenTextures(call)
       IN  IF textures = << >>
           THEN EndOfCell(drawn)
           ELSE /\ board' = [board EXCEPT !.elements = drawn]
                /\ work' = textures
                /\ pc' = "texture"
                /\ UNCHANGED << cell, label_location, result >>
    /\ UNCHANGED << catalog_vars, phase, rng, call, file_name, written, runs >>

\* One pass through the body of the loop of the running texture function.
TextureSample ==
    /\ pc = "texture"
    /\ LET c == CurrentCell
           texture == Head(work)
           try == Tries[texture.style, c.center, texture.masking_radius, rng]
           sample == try.sample
       IN  /\ rng' = sample.rng
           /\ IF sample.error
              THEN /\ Raise("ZeroDivisionError")
                   /\ UNCHANGED << board, cell, label_location, work >>
              ELSE IF try.again
              THEN UNCHANGED << board, cell, label_location, work, pc, result >>
              ELSE LET drawn == Append(board.elements,
                                       Element("Line", texture.style, c.name,
                                               Flat(sample.edges)))
                       rest == IF texture.left > 1
                               THEN << [texture EXCEPT !.left = @ - 1] >> \o Tail(work)
                               ELSE Tail(work)
                   IN  IF rest = << >>
                       THEN EndOfCell(drawn)
                       ELSE /\ board' = [board EXCEPT !.elements = drawn]
                            /\ work' = rest
                            /\ UNCHANGED << cell, label_location, pc, result >>
    /\ UNCHANGED << catalog_vars, phase, call, file_name, written, runs >>

\* board.save_svg(...), line 795: the file is written, or the write fails.
SaveSvgTo(ok) ==
    /\ pc = "save_svg"
    /\ IF ok
       THEN /\ written' = Append(written, file_name \o Str_svg)
            /\ pc' = "save_png"
            /\ UNCHANGED result
       ELSE /\ Raise("OSError")
            /\ UNCHANGED written
    /\ UNCHANGED << catalog_vars, phase, rng, call, file_name, board, cell,
                    label_location, work >>

SaveSvg ==
    /\ \E ok \in BOOLEAN : SaveSvgTo(ok)
    /\ UNCHANGED runs

\* The same, the history keeping the document when the call is the first of
\* its process and no earlier process has made a call with these arguments.
SaveSvgRecorded ==
    /\ \E ok \in BOOLEAN :
          /\ SaveSvgTo(ok)
          /\ runs' = IF ok /\ runs.fresh /\ call \notin DOMAIN runs.svg
                     THEN [runs EXCEPT !.svg =
                            [a \in DOMAIN runs.svg \cup { call } |->
                                IF a = call THEN board.elements ELSE runs.svg[a]]]
                     ELSE runs

\* board.save_png(...), line 800.
SavePng ==
    /\ pc = "save_png"
    /\ \E ok \in BOOLEAN :
          IF ok
          THEN /\ written' = Append(written, file_name \o Str_png)
               /\ pc' = "done"
               /\ result' = Outcome("draw_board", << >>, NoError, NoneRef)
          ELSE /\ Raise("OSError")
               /\ UNCHANGED written
    /\ UNCHANGED << catalog_vars, phase, rng, call, file_name, board, cell,
                    label_location, work, runs >>

\* The call is over, by return or by exception: its locals are gone.
DrawReturn ==
    /\ pc \in { "done", "raised" }
    /\ pc' = "idle"
    /\ call' = NoCall
    /\ file_name' = << >>
    /\ board' = NoBoard
    /\ cell' = 0
    /\ label_location' = Unbound
    /\ work' = << >>
    /\ written' = << >>
    /\ runs' = [runs EXCEPT !.fresh = FALSE]
    /\ UNCHANGED << catalog_vars, phase, rng, result >>

\* No seeding as the module is loaded: the generator is left in state s.
NoSeedAtLoad(s) == s

\* random.seed(a=RANDOM_SEED) as the module is loaded (line 44), whatever the
\* generator's state s was.
SeedAtLoad(s) == Seeded

DrawInit ==
    /\ rng = Seeded
    /\ pc = "idle"
    /\ call = NoCall
    /\ file_name = << >>
    /\ board = NoBoard
    /\ cell = 0
    /\ label_location = Unbound
    /\ work = << >>
    /\ written = << >>
    /\ runs = [fresh |-> TRUE, svg |-> << >>]

\* The process ends and the program is started again: a new process at line
\* 1049, its generator seeded by line 44. Only the history remains.
Relaunch ==
    /\ pc = "idle"
    /\ phase = "loaded"
    /\ phase' = "loading"
    /\ heap' = << >>
    /\ lists' = << << >> >>
    /\ name_to_hexagon' = << >>
    /\ position_uv_to_hexagon' = << >>
    /\ all_sorted_hexagons' = 1
    /\ all' = NoneRef
    /\ init_done' = FALSE
    /\ layout' = << >>
    /\ delta_u' = << >>
    /\ delta_v' = << >>
    /\ result' = Outcome("load", << >>, NoError, NoneRef)
    /\ rng' = SeedAtLoad(rng)
    /\ runs' = [runs EXCEPT !.fresh = TRUE]
    /\ UNCHANGED << pc, call, file_name, board, cell, label_location, work, written >>

---------------------------------------------------------------------------
(* Inputs. *)

\* Names a caller looks up: every name of the layout and two that are not.
LookupNames == { HexagonCalls[i].name : i \in 1..Len(HexagonCalls) }
                   \cup { << "z", "9" >>, << "h", "1" >> }

\* Arguments of constructor calls made from outside the class: a registered and
\* a fresh name, a name that is not two characters; a registered and a fresh
\* position, a position that is not a pair.
ConstructNames == { << "a", "1" >>, << "z", "9" >>, << "z", "z", "z" >> }
ConstructPositions == { << 0, 0 >>, << 9, 9 >>, << 1, 2, 3 >> }
ConstructRings == { 0 }
ConstructSides == { DefaultLabelSide }

\* The arguments of draw_board calls; scale_factor is in thousandths.
Args(scale_factors, labels, decoration, rendering, fills, textures) ==
    [scale_factor : scale_factors,
     with_all_labels : labels, without_labels : labels,
     with_decoration : decoration,
     do_rendering : rendering,
     with_gradient : fills, with_opacity : fills,
     with_texture : textures, with_concentrated_texture : textures,
     with_concentric_hexas : textures]

\* Every combination of the flags, at scale factors 1 and 5.
AllArgs == Args({ 1000, 5000 }, BOOLEAN, BOOLEAN, BOOLEAN, BOOLEAN, BOOLEAN)

\* The calls that are drawn to their end, the scale factor, do_rendering,
\* with_gradient and with_opacity as main() leaves them: every label mode
\* without decoration and with the default decoration, and every combination
\* of the texture flags with decoration in the label mode of main().
DrawArgs ==
    { a \in Args({ 5000 }, BOOLEAN, BOOLEAN, { TRUE }, { TRUE }, BOOLEAN) :
        LET plain == ~a.with_texture /\ ~a.with_concentrated_texture
                        /\ ~a.with_concentric_hexas
            few == ~a.with_all_labels /\ ~a.without_labels
        IN  IF a.with_decoration THEN plain \/ few ELSE plain }

Init == CatalogInit /\ DrawInit

\* The lifecycle alone: load, init, reset and the lookups.
NextLifecycle ==
    \/ ModuleLoad
    \/ HexInit
    \/ HexReset
    \/ \E name \in LookupNames : Get(name)
    \/ GetAll

SpecLifecycle == Init /\ [][NextLifecycle]_vars

Next ==
    \/ ModuleLoad
    \/ HexInit
    \/ HexReset
    \/ \E name \in ConstructNames, position_uv \in ConstructPositions,
          ring \in ConstructRings, label_side \in ConstructSides :
            Construct(name, position_uv, ring, label_side)
    \/ \E name \in ConstructNames : Get(name)
    \/ GetAll

Spec == Init /\ [][Next]_vars

\* The renderer: draw_board calls run to their end, between loads, resets
\* and inits.
NextDraw ==
    \/ ModuleLoad
    \/ Main
    \/ HexInit
    \/ HexReset
    \/ \E a \in DrawArgs : DrawBegin(a)
    \/ DrawHexagon
    \/ TextureSample
    \/ SaveSvg
    \/ SavePng
    \/ DrawReturn

SpecDraw == Init /\ [][NextDraw]_vars

\* The calls that processes run one after another are compared on: the call
\* of main(), and a call with textures on the cells of every ring.
RunArgs == { MainArgs, [MainArgs EXCEPT !.with_texture = TRUE] }

\* Processes one after another, each making draw_board calls.
NextRuns ==
    \/ ModuleLoad
    \/ \E a \in RunArgs : DrawBegin(a)
    \/ DrawHexagon
    \/ TextureSample
    \/ SaveSvgRecorded
    \/ SavePng
    \/ DrawReturn
    \/ Relaunch

SpecRuns == Init /\ [][NextRuns]_vars

\* The same as the interpreter runs them: a draw_board call that can take the
\* next step of its cell loop or of a texture loop takes it.
SpecRunsFair ==
    /\ SpecRuns
    /\ WF_vars(DrawHexagon)
    /\ WF_vars(TextureSample)

\* The naming of the output file: the first step of every possible call.
NextFileName ==
    \/ ModuleLoad
    \/ \E a \in AllArgs : DrawBegin(a)

SpecFileName == Init /\ [][NextFileName]_vars

---------------------------------------------------------------------------
(* What the claims speak of. *)

\* The object ids in the name table, in the position table and in the list
\* Hexagon.get_all() returns.
NamedIds == { name_to_hexagon[n] : n \in DOMAIN name_to_hexagon }
PlacedIds == { position_uv_to_hexagon[p] : p \in DOMAIN position_uv_to_hexagon }
ListedIds(l) == { lists[l][i] : i \in 1..Len(lists[l]) }

\* The cells of list l, by value and in order.
ListValues(l) == [i \in 1..Len(lists[l]) |-> heap[lists[l][i]]]

Max3(a, b, c) == IF a >= b /\ a >= c THEN a ELSE IF b >= c THEN b ELSE c

\* The positions at most d steps from (0, 0), a step being one of the six
\* (delta_u[k], delta_v[k]).
RECURSIVE Ball(_)
Ball(d) ==
    IF d = 0 THEN { << 0, 0 >> }
    ELSE LET inner == Ball(d - 1)
         IN  inner \cup { << p[1] + delta_u[k], p[2] + delta_v[k] >> :
                            p \in inner, k \in 1..Len(delta_u) }

\* The length of a shortest path of steps from (0, 0) to p.
GraphDistance(p) ==
    LET far == Abs(p[1]) + Abs(p[2])
    IN  CHOOSE d \in 0..far : p \in Ball(d) /\ (d = 0 \/ p \notin Ball(d - 1))

---------------------------------------------------------------------------
(* The claims. *)

\* C1 (as amended): after Hexagon.init(), and after any later sequence of
\* reset/init ending in init, the catalog holds exactly 49 cells (in the name
\* table, in the position table and in the sorted list) and the ring values
\* occurring in it are exactly the 5 values 0..4.
C1_CatalogHas49CellsAnd5Rings ==
    init_done =>
        /\ Cardinality(DOMAIN name_to_hexagon) = 49
        /\ Cardinality(DOMAIN position_uv_to_hexagon) = 49
        /\ Len(lists[all_sorted_hexagons]) = 49
        /\ { heap[o].ring : o \in NamedIds } = 0..4

\* C1 as stated: 48 cells and 7 distinct ring values.
C1_AsStated ==
    init_done =>
        /\ Cardinality(DOMAIN name_to_hexagon) = 48
        /\ Cardinality({ heap[o].ring : o \in NamedIds }) = 7

\* C1's case: the catalog rebuilt by an init that followed a reset.
C1_Witness ==
    /\ init_done
    /\ all_sorted_hexagons = 2
    /\ result.op = "init"

\* C2: names are pairwise distinct, positions are pairwise distinct, and every
\* registered cell is found under its own name in the name table and under its
\* own position in the position table; the two tables hold the same cells.
C2_TablesAgree ==
    /\ \A a, b \in NamedIds \cup PlacedIds :
          (heap[a].name = heap[b].name \/ heap[a].position_uv = heap[b].position_uv)
              => a = b
    /\ \A n \in DOMAIN name_to_hexagon :
          LET c == name_to_hexagon[n]
          IN  /\ heap[c].name = n
              /\ heap[c].position_uv \in DOMAIN position_uv_to_hexagon
              /\ position_uv_to_hexagon[heap[c].position_uv] = c
    /\ \A p \in DOMAIN position_uv_to_hexagon :
          heap[position_uv_to_hexagon[p]].position_uv = p
    /\ NamedIds = PlacedIds

\* C2's case: both tables filled by init and by a further constructor call.
C2_Witness ==
    /\ init_done
    /\ Cardinality(DOMAIN name_to_hexagon) = 50
    /\ << 9, 9 >> \in DOMAIN position_uv_to_hexagon

\* C3: the ring of every registered cell is the graph distance of its position
\* from (0, 0) under the six neighbour steps, which is max(|u|, |v|, |u+v|);
\* d4 is at (0, 0) with ring 0, a1 and g6 have ring 4.
C3_RingIsHexDistance ==
    init_done =>
        /\ \A o \in NamedIds :
              LET p == heap[o].position_uv
              IN  /\ heap[o].ring = GraphDistance(p)
                  /\ heap[o].ring = Max3(Abs(p[1]), Abs(p[2]), Abs(p[1] + p[2]))
        /\ heap[name_to_hexagon[<< "d", "4" >>]].position_uv = << 0, 0 >>
        /\ heap[name_to_hexagon[<< "d", "4" >>]].ring = 0
        /\ heap[name_to_hexagon[<< "a", "1" >>]].ring = 4
        /\ heap[name_to_hexagon[<< "g", "6" >>]].ring = 4

\* C3's case: the cells exist and the six steps are set.
C3_Witness ==
    /\ init_done
    /\ Len(delta_u) = 6
    /\ << "g", "6" >> \in DOMAIN name_to_hexagon

\* C4: the first init() after the load or after a reset builds the cells, the
\* sorted list and the layout; an init() while the catalog is built returns
\* normally and changes no table, list, layout or index.
C4_InitIsLazyAndIdempotent ==
    [][ /\ (result'.op = "init" /\ init_done) =>
              (UNCHANGED catalog_vars /\ result'.error = NoError)
        /\ (result'.op = "init" /\ ~init_done /\ DOMAIN name_to_hexagon = {}) =>
              /\ init_done'
              /\ Len(lists'[all_sorted_hexagons']) = Len(HexagonCalls)
              /\ ListedIds(all_sorted_hexagons)' = NamedIds'
              /\ Len(layout') = 7
      ]_vars

\* C4's case: an init() made while the catalog was already built (only then
\* can init follow a constructor call that registered a 50th cell).
C4_Witness ==
    /\ result.op = "init"
    /\ init_done
    /\ Cardinality(DOMAIN name_to_hexagon) = 50

\* C5: reset() followed by init() never fails, and the catalog it yields is
\* the catalog of the first init(): the same names, positions, rings, label
\* sides, indices and centers, in the same order.
C5_ResetInitReproduces ==
    /\ result.op = "init" => result.error = NoError /\ init_done
    /\ init_done =>
          /\ ListValues(all_sorted_hexagons) = ListValues(1)
          /\ ListedIds(all_sorted_hexagons) = NamedIds

\* C5's case: a second catalog, built in a second list by objects of its own.
C5_Witness ==
    /\ init_done
    /\ all_sorted_hexagons = 2
    /\ ListedIds(2) \cap ListedIds(1) = {}
    /\ Len(lists[2]) > 0

\* A constructor call has just registered a cell under a fresh name and a
\* fresh position, in both tables and nowhere else.
RegisteredOne ==
    /\ result'.op = "construct"
    /\ result'.error = NoError
    /\ result'.args[1] \notin DOMAIN name_to_hexagon
    /\ result'.args[2] \notin DOMAIN position_uv_to_hexagon
    /\ name_to_hexagon' = RegisterName(name_to_hexagon, result'.args[1], result'.value)
    /\ position_uv_to_hexagon' =
          RegisterPosition(position_uv_to_hexagon, result'.args[2], result'.value)

\* C6 (as amended): once init() has completed, no operation other than reset
\* changes the sorted list or any cell in it; init calls, lookups and failed
\* constructor calls change neither table; a successful constructor call adds
\* its one cell to the name table and to the position table (and not to the
\* sorted list), so the tables always hold the cells of the sorted list.
C6_CatalogChangesOnlyByConstruction ==
    [][ (init_done /\ result'.op # "reset") =>
            /\ init_done'
            /\ all_sorted_hexagons' = all_sorted_hexagons
            /\ ListValues(all_sorted_hexagons)' = ListValues(all_sorted_hexagons)
            /\ lists'[all_sorted_hexagons] = lists[all_sorted_hexagons]
            /\ \/ /\ name_to_hexagon' = name_to_hexagon
                  /\ position_uv_to_hexagon' = position_uv_to_hexagon
               \/ RegisteredOne
            /\ ListedIds(all_sorted_hexagons)' \subseteq NamedIds'
            /\ NamedIds' = PlacedIds'
      ]_vars

\* C6 as stated: after init, every operation other than reset leaves the name
\* table, the position table and the sorted list as they were, and the three
\* hold the same cells.
C6_AsStated ==
    [][ (init_done /\ result'.op # "reset") =>
            /\ name_to_hexagon' = name_to_hexagon
            /\ position_uv_to_hexagon' = position_uv_to_hexagon
            /\ lists'[all_sorted_hexagons'] = lists[all_sorted_hexagons]
            /\ NamedIds' = ListedIds(all_sorted_hexagons)'
            /\ PlacedIds' = ListedIds(all_sorted_hexagons)'
      ]_vars

\* C6's case: a constructor call that succeeded after init().
C6_Witness ==
    /\ init_done
    /\ result.op = "construct"
    /\ result.error = NoError

\* C7: a constructor call whose name is registered, whose position is
\* registered or whose position is not a pair raises, and leaves the name
\* table, the position table and the sorted list (and every cell) as they were.
C7_RejectedConstructionChangesNothing ==
    [][ ( /\ result'.op = "construct"
          /\ \/ result'.args[1] \in DOMAIN name_to_hexagon
             \/ result'.args[2] \in DOMAIN position_uv_to_hexagon
             \/ Len(result'.args[2]) # 2 ) =>
            /\ result'.error = AssertionError
            /\ UNCHANGED catalog_vars
      ]_vars

\* C7's case: a constructor call rejected while the catalog is built.
C7_Witness ==
    /\ init_done
    /\ result.op = "construct"
    /\ result.error = AssertionError
    /\ Len(result.args[2]) # 2


---------------------------------------------------------------------------
(* Labels and file names of draw_board. *)

\* The call in progress is past its first line.
Drawing == pc \in { "hexagon", "texture", "save_svg", "save_png", "done" }

\* The text elements on the board, in the order they were appended.
Texts == SelectSeq(board.elements, LAMBDA e : e.kind = "Text")

\* The cells of Hexagon.all whose pass of the loop is over, in order.
DrawnCells == [i \in 1..(cell - 1) |-> heap[lists[all][i]]]

Tagged(c) == c.label_side \in { SideWEST, SideEAST }

\* The names that open and that close a row of __create_layout.
RowFirsts == { CreateLayout[r][2][1] : r \in 1..Len(CreateLayout) }
RowLasts == { CreateLayout[r][2][Len(CreateLayout[r][2])] : r \in 1..Len(CreateLayout) }

\* C8: all through a draw_board call with with_all_labels=True and
\* without_labels=False the text elements are one per cell drawn so far, in
\* the order of Hexagon.all, each with its cell's name and placed at the
\* cell's center plus the vertical shift; when the loop is over they are 49,
\* one per cell of Hexagon.all.
C8_AllLabelsOnePerCell ==
    (Drawing /\ call.with_all_labels /\ ~call.without_labels) =>
        /\ Len(Texts) = cell - 1
        /\ \A i \in 1..Len(Texts) :
              /\ Texts[i].cell = DrawnCells[i].name
              /\ Texts[i].data = VAdd(DrawnCells[i].center, label_vertical_shift)
        /\ pc \in { "save_svg", "save_png", "done" } =>
              /\ cell - 1 = Len(lists[all])
              /\ Len(Texts) = 49
              /\ { Texts[i].cell : i \in 1..Len(Texts) } = { HexagonCalls[k].name : k \in 1..Len(HexagonCalls) }

\* C8 as stated: when the loop of such a call is over the text elements are 48.
C8_AsStated ==
    (pc \in { "save_svg", "save_png", "done" }
        /\ call.with_all_labels /\ ~call.without_labels) =>
        Len(Texts) = 48

\* C8's case: such a call has drawn every cell and written its two files.
C8_Witness ==
    /\ pc = "done"
    /\ call.with_all_labels
    /\ ~call.without_labels
    /\ Len(written) = 2
    /\ Len(Texts) > 0

\* C9: all through a draw_board call in the few-labels mode the text elements
\* are one per WEST or EAST cell drawn so far and none for any other cell, a
\* WEST cell's at its center minus the horizontal shift and an EAST cell's at
\* its center plus it; the WEST cells of Hexagon.all are the first cells of
\* the seven rows of the layout and the EAST cells the last ones.
C9_FewLabelsFollowTheTags ==
    (Drawing /\ ~call.with_all_labels /\ ~call.without_labels) =>
        LET tagged == SelectSeq(DrawnCells, Tagged)
        IN  /\ Len(Texts) = Len(tagged)
            /\ \A i \in 1..Len(Texts) :
                  /\ Texts[i].cell = tagged[i].name
                  /\ Texts[i].data =
                        IF tagged[i].label_side = SideWEST
                        THEN VSub(tagged[i].center, label_horizontal_shift)
                        ELSE VAdd(tagged[i].center, label_horizontal_shift)
            /\ Len(CreateLayout) = 7
            /\ init_done => layout = CreateLayout
            /\ \A i \in 1..Len(lists[all]) :
                  LET c == heap[lists[all][i]]
                  IN  /\ c.label_side = SideWEST <=> c.name \in RowFirsts
                      /\ c.label_side = SideEAST <=> c.name \in RowLasts

\* C9's case: a few-labels call is over, and the cell drawn last but one has
\* a label while the cell drawn last has no tag.
C9_Witness ==
    /\ pc = "done"
    /\ ~call.with_all_labels
    /\ ~call.without_labels
    /\ Len(Texts) = 14
    /\ \E i \in 2..(cell - 1) :
          /\ Tagged(DrawnCells[i - 1])
          /\ ~Tagged(DrawnCells[i])

\* none / all / few
LabelMode(a) ==
    IF a.without_labels THEN "none"
    ELSE IF a.with_all_labels THEN "all"
    ELSE "few"

\* What the file name has to tell apart at a given scale factor.
Toggles(a) ==
    << LabelMode(a), a.with_decoration, a.with_gradient, a.with_opacity,
       a.with_texture, a.with_concentrated_texture, a.with_concentric_hexas,
       a.do_rendering >>

\* The file name of every call.
FileNames == [a \in AllArgs |-> FileName(a)]

\* C10: no call with the same scale factor and another label mode or another
\* value of with_decoration, with_gradient, with_opacity, with_texture,
\* with_concentrated_texture, with_concentric_hexas or do_rendering gets the
\* file name of the call in progress.
C10_FileNameTellsTogglesApart ==
    pc # "idle" =>
        \A b \in AllArgs :
            (b.scale_factor = call.scale_factor /\ Toggles(b) # Toggles(call)) =>
                FileNames[b] # file_name

\* C10's case: a call for the laser cut at scale 5 with every token in its
\* file name.
C10_Witness ==
    /\ pc # "idle"
    /\ call.scale_factor = 5000
    /\ ~call.do_rendering
    /\ call.with_decoration /\ ~call.with_gradient /\ ~call.with_opacity
    /\ call.with_texture /\ call.with_concentrated_texture
    /\ call.with_concentric_hexas
    /\ file_name = FileName(call)

---------------------------------------------------------------------------
(* The files of main(). *)

\* 'scale-5.00-staku_board_with_few_labels_with_decoration'
MainName ==
    << "s","c","a","l","e","-","5",".","0","0","-" >>
    \o << "s","t","a","k","u","_","b","o","a","r","d" >>
    \o << "_","w","i","t","h","_","f","e","w","_","l","a","b","e","l","s" >>
    \o << "_","w","i","t","h","_","d","e","c","o","r","a","t","i","o","n" >>

\* 'staku_board_with_few_labels_with_decoration'
MainNameAsStated == SubSeq(MainName, 12, Len(MainName))

Suffix_svg == << ".", "s", "v", "g" >>
Suffix_png == << ".", "p", "n", "g" >>

\* C11: all through the call main() makes, the files written are the first
\* ones of scale-5.00-staku_board_with_few_labels_with_decoration.svg and
\* scale-5.00-staku_board_with_few_labels_with_decoration.png, in this order;
\* when the call has returned normally they are exactly these two.
C11_MainWritesItsTwoScaledFiles ==
    (pc # "idle" /\ call = MainArgs) =>
        LET files == << MainName \o Suffix_svg, MainName \o Suffix_png >>
        IN  /\ Len(written) <= 2
            /\ written = SubSeq(files, 1, Len(written))
            /\ pc = "done" => written = files

\* C11 as stated: the two files of the call are
\* staku_board_with_few_labels_with_decoration.svg and
\* staku_board_with_few_labels_with_decoration.png.
C11_AsStated ==
    (pc = "done" /\ call = MainArgs) =>
        written = << MainNameAsStated \o Suffix_svg, MainNameAsStated \o Suffix_png >>

\* C11's case: the call of main() has returned, its two files written.
C11_Witness ==
    /\ pc = "done"
    /\ call = MainArgs
    /\ Len(written) = 2

---------------------------------------------------------------------------
(* Runs of the program compared. *)

\* The call in progress is the first of its process, and an earlier process
\* made a first call with the same arguments and saved its SVG document.
SecondRun == pc # "idle" /\ runs.fresh /\ call \in DOMAIN runs.svg

\* The elements drawn for textures.
Segments(elements) == SelectSeq(elements, LAMBDA e : e.kind = "Line")

\* C12: all through the first draw_board call of a process, the elements
\* appended so far, coordinates included, are the first elements of the SVG
\* document that the first call of an earlier process saved for the same
\* arguments, and once every cell is drawn they are that whole document.
C12_RunsWithTheSameFlagsDrawTheSame ==
    SecondRun =>
        /\ Len(board.elements) <= Len(runs.svg[call])
        /\ board.elements = SubSeq(runs.svg[call], 1, Len(board.elements))
        /\ pc \in { "save_svg", "save_png", "done" } => board.elements = runs.svg[call]

\* C12's case: a process is about to save the document of its first call, with
\* texture segments in it, for arguments whose document an earlier process
\* has saved.
C12_Witness ==
    /\ SecondRun
    /\ pc = "save_svg"
    /\ Len(Segments(board.elements)) > 20

---------------------------------------------------------------------------
(* The files of a call that ends. *)

\* C13 as stated: when a draw_board call ends, by return or by exception, it
\* has written both its SVG file and its PNG file, or neither of them.
C13_AsStated ==
    pc \in { "done", "raised" } => Len(written) \in { 0, 2 }

---------------------------------------------------------------------------
(* The decoration of the cells. *)

\* What has been appended for the cell of this name besides its polygon and
\* its label: the roles of these elements.
DecorationRoles(name) ==
    { board.elements[i].role : i \in { j \in 1..Len(board.elements) :
          /\ board.elements[j].cell = name
          /\ board.elements[j].role \notin { "hexagon", "label" } } }

\* C14: all through a draw_board call with with_decoration=True, what has
\* been appended for each cell of odd ring drawn so far is of one style only:
\* concentric hexagons, or the segments of the concentrated, the gradient or
\* the uniform texture; without decoration nothing is appended but the outer
\* rectangle, the polygons of the cells and the labels.
C14_OddCellsGetOneStyle ==
    Drawing =>
        IF call.with_decoration
        THEN \A i \in 1..(cell - 1) :
                DrawnCells[i].ring % 2 = 1 =>
                    /\ Cardinality(DecorationRoles(DrawnCells[i].name)) = 1
                    /\ DecorationRoles(DrawnCells[i].name) \subseteq
                          { "hexa", "concentrated", "gradient", "uniform" }
        ELSE \A j \in 1..Len(board.elements) :
                board.elements[j].role \in { "outer", "cut", "hexagon", "label" }

\* C14's case: a call with decoration and the three style flags set has drawn
\* every cell.
C14_Witness ==
    /\ pc = "done"
    /\ call.with_decoration
    /\ call.with_concentric_hexas
    /\ call.with_concentrated_texture
    /\ call.with_texture
    /\ \E i \in 1..(cell - 1) : DrawnCells[i].ring % 2 = 1

---------------------------------------------------------------------------
(* The texture segments of the cells of even ring. *)

\* The cell of Hexagon.all with this name.
CellNamed(name) ==
    LET i == CHOOSE j \in 1..Len(lists[all]) : heap[lists[all][j]].name = name
    IN  heap[lists[all][i]]

\* The two ends of a texture segment.
Ends(e) == << << e.data[1], e.data[2] >>, << e.data[3], e.data[4] >> >>

\* Both ends of the segment are at the masking radius of draw_board or
\* farther from the center of the segment's cell.
ClearOfCenter(e) ==
    \A k \in 1..2 :
        Norm(VSub(Ends(e)[k], CellNamed(e.cell).center)) >= decorater_circle_radius

\* C15 as stated: all through a draw_board call with decoration, every
\* texture segment appended for a cell of even ring, whatever its style, has
\* both ends at the masking radius or farther from the cell's center.
C15_AsStated ==
    (Drawing /\ call.with_decoration) =>
        \A j \in 1..Len(board.elements) :
            LET e == board.elements[j]
            IN  (e.kind = "Line" /\ CellNamed(e.cell).ring % 2 = 0) => ClearOfCenter(e)

\* The same of the segments of the two textures that draw_board calls with a
\* masking radius.
C15_MaskedStylesKeepClear ==
    (Drawing /\ call.with_decoration) =>
        \A j \in 1..Len(board.elements) :
            LET e == board.elements[j]
            IN  ( /\ e.kind = "Line"
                  /\ CellNamed(e.cell).ring % 2 = 0
                  /\ e.role \in { "concentrated", "uniform" } ) => ClearOfCenter(e)

---------------------------------------------------------------------------
(* The border points of the uniform texture. *)

\* The point (1 - p)*V[i] + p*V[j] is on the boundary of the hexagon: V[i] and
\* V[j] are the two ends of an edge, or the point is one of them.
OnBoundary(choice) ==
    \/ (choice.vertices[2] - choice.vertices[1]) % 6 \in { 1, 5 }
    \/ choice.p \in { 0, 1000 }

\* C16 as stated: whenever draw_uniform_texture is about to sample a segment,
\* each of the two border points it samples is on the boundary of the cell's
\* hexagon.
C16_AsStated ==
    (pc = "texture" /\ Head(work).style = "uniform") =>
        \A k \in 1..2 : OnBoundary(UniformChoices(rng)[k])

---------------------------------------------------------------------------
(* The resampling loops. *)

\* The segments appended for the cell of this name by the texture of this
\* style.
SegmentsOf(name, style) ==
    SelectSeq(board.elements,
              LAMBDA e : e.kind = "Line" /\ e.cell = name /\ e.role = style)

\* The texture calls draw_board makes for this cell.
TexturesOf(c) ==
    IF ~call.with_decoration THEN << >>
    ELSE IF c.ring % 2 = 1 THEN OddTextures(call)
    ELSE EvenTextures(call)

\* The pass the running texture loop is about to make ends at the masking
\* test of lines 893-905 or 947-959, which sends the loop round again.
GoesRoundAgain ==
    /\ pc = "texture"
    /\ Tries[Head(work).style, CurrentCell.center, Head(work).masking_radius, rng].again

---------------------------------------------------------------------------
(* Hexagon.all and Hexagon.get_all(). *)

\* The cells of this list are in ascending order of name, and the index of
\* each is its place in the list, counted from 0 as Python counts.
SortedAndIndexed(cells) ==
    /\ [i \in 1..Len(cells) |-> heap[cells[i]].name]
          = Sorted({ heap[cells[i]].name : i \in 1..Len(cells) })
    /\ \A i \in 1..Len(cells) : heap[cells[i]].index = i - 1

\* C18, as the specification states it, for the states a caller can see: once
\* the module is loaded, in every state that init and reset reach, Hexagon.all
\* is the same sequence of cells as Hexagon.get_all() returns, sorted by name,
\* each cell's index being its place in the sequence.
C18_AsStated ==
    phase = "loaded" =>
        /\ all # NoneRef
        /\ lists[all] = lists[all_sorted_hexagons]
        /\ SortedAndIndexed(lists[all])

\* What init() does establish: once it has run to its end, and until the next
\* reset, Hexagon.all is the very list get_all() returns, sorted and indexed.
C18_InitMakesTheShortcut ==
    init_done => /\ all = all_sorted_hexagons
                 /\ Len(lists[all]) = Len(HexagonCalls)
                 /\ SortedAndIndexed(lists[all])

---------------------------------------------------------------------------
(* The random stream through the calls of a process. *)

\* A call of a process that has finished a call before, about to save a
\* document for arguments whose first-call document the history holds.
LaterCall == pc = "save_svg" /\ ~runs.fresh /\ call \in DOMAIN runs.svg

\* C19: the generator is in its seeded state when a process is loaded, and
\* from then on only the sampling of a texture changes its state: entering
\* draw_board, drawing a cell, saving a file and returning leave it where it
\* is, so that a call starts on the stream where the call before stopped.
C19_SeededOnceAtLoad ==
    /\ rng = Seeded
    /\ [][ /\ phase' = "loading" => rng' = Seeded
           /\ (phase' # "loading" /\ pc # "texture") => rng' = rng ]_vars

\* C19's case: a later call of a process has drawn, for the same arguments,
\* texture segments other than those the first call of a process draws: the
\* calls before it have moved the generator.
C19_Witness ==
    /\ LaterCall
    /\ rng # Seeded
    /\ Len(Segments(board.elements)) = Len(Segments(runs.svg[call]))
    /\ Segments(board.elements) # Segments(runs.svg[call])

=============================================================================
